---- MODULE Spec2Model ----
(***************************************************************************)
(* Model of the R2Index Airflow provider: the configuration priority chain *)
(* of R2IndexHook (hooks/r2index.py) and the concurrent batch execution of *)
(* R2IndexUploadOperator / R2IndexDownloadOperator (operators/r2index.py). *)
(*                                                                         *)
(* Python values: None is the string NONE, a str is a TLA+ string, except  *)
(* secret references, secret paths and secret keys, which are sequences of *)
(* one-character strings so that rsplit("#", 1) can be computed.  A config *)
(* key name used as a secret key is the one-element sequence <<name>>.     *)
(***************************************************************************)
EXTENDS Integers, Sequences, FiniteSets, TLC

VARIABLES
    connections,   \* connection store: conn id -> connection or lookup failure
    vault,         \* vault backend: VaultHook availability and secrets by path
    environ,       \* os.environ, the five variables
    opResolved,    \* last result of an operator's _get_client_config (with trace)
    hookClient,    \* R2IndexHook._client of one hook instance
    kind,          \* "upload" or "download": which operator executes
    items,         \* self.items
    conn_configs,  \* execute's conn_configs dict
    resolveCalls,  \* conn id -> number of _get_client_config calls in this batch
    pc,            \* per item task: position in upload_one / download_one
    task,          \* per item task: locals (conn_id, bucket, config, pending outcome)
    taskResult,    \* per item task: the dict the coroutine returned
    clientState,   \* per item task: what happened to its AsyncR2IndexClient
    finished,      \* indices of the item tasks in the order they completed
    xpc,           \* position of execute
    results,       \* execute's results list
    logged,        \* what execute passed to self.log
    raised,        \* the AirflowException execute raised, or NoException
    returned,      \* the value execute returned
    parsed,        \* a call of _parse_secret_ref: arguments and result
    xcom,          \* the return_value XCom of a task instance
    link           \* a call of R2IndexFileLink.get_link: its outcome

worldVars == <<connections, vault, environ>>
pureVars == <<parsed, xcom, link>>
hookVars == <<opResolved, hookClient>>
batchVars == <<kind, items, conn_configs, resolveCalls, pc, task, taskResult,
               clientState, finished, xpc, results, logged, raised, returned>>
vars == <<connections, vault, environ, opResolved, hookClient, kind, items,
          conn_configs, resolveCalls, pc, task, taskResult, clientState,
          finished, xpc, results, logged, raised, returned, parsed, xcom, link>>

NONE == "<None>"

\* Python truthiness of a str | None value
Truthy(v) == v # NONE /\ v # ""

\* Python truthiness of a reference (sequence of characters) or NONE
TruthyRef(r) == r # <<NONE>> /\ r # <<>>

NoRef == <<NONE>>

----------------------------------------------------------------------------
(* R2IndexHook: configuration priority chain                               *)

CONFIG_KEYS ==
    <<"r2index_api_url", "r2index_api_token", "r2_access_key_id",
      "r2_secret_access_key", "r2_endpoint_url">>

\* the key of the resulting config that each CONFIG_KEYS entry fills
ConfigField ==
    <<"index_api_url", "index_api_token", "r2_access_key_id",
      "r2_secret_access_key", "r2_endpoint_url">>

ConfigFields == {ConfigField[i] : i \in 1..5}

NoConfig == [none |-> TRUE]

IsNoConfig(c) == DOMAIN c = {"none"}

\* in place of a config: an exception is propagating to the caller
Raising == [raising |-> TRUE]

IsRaising(c) == DOMAIN c = {"raising"}

\* index of the last "#" of a reference, 0 when there is none
RECURSIVE LastHash(_, _)
LastHash(s, i) ==
    IF i = 0 THEN 0
    ELSE IF s[i] = "#" THEN i
    ELSE LastHash(s, i - 1)

_parse_secret_ref_at_first(secret_ref, default_key) ==
    LET hashes == {k \in 1..Len(secret_ref) : secret_ref[k] = "#"}
        h == IF hashes = {} THEN 0
             ELSE CHOOSE k \in hashes : \A m \in hashes : k <= m
    IN  IF h > 0
        THEN <<SubSeq(secret_ref, 1, h - 1), SubSeq(secret_ref, h + 1, Len(secret_ref))>>
        ELSE <<secret_ref, default_key>>

_parse_secret_ref(secret_ref, default_key) ==
    LET h == LastHash(secret_ref, Len(secret_ref))
    IN  IF h > 0
        THEN <<SubSeq(secret_ref, 1, h - 1), SubSeq(secret_ref, h + 1, Len(secret_ref))>>
        ELSE <<secret_ref, default_key>>

_get_config_from_env(env) ==
    [index_api_url |-> env.R2INDEX_API_URL,
     index_api_token |-> env.R2INDEX_API_TOKEN,
     r2_access_key_id |-> env.R2_ACCESS_KEY_ID,
     r2_secret_access_key |-> env.R2_SECRET_ACCESS_KEY,
     r2_endpoint_url |-> env.R2_ENDPOINT_URL]

\* VaultHook.get_secret: the data of a path, None for an unknown path,
\* or an exception
VaultGetSecret(vlt, path) ==
    IF path \in DOMAIN vlt.secrets THEN vlt.secrets[path] ELSE [kind |-> "none"]

DictGetOrKey(d, key) == IF key \in DOMAIN d THEN d[key] ELSE key[1]

\* dict.get
DictGet(d, key) == IF key \in DOMAIN d THEN d[key] ELSE NONE

EmptyDict == [k \in {} |-> NONE]

\* data or {}
DataOrEmpty(data) == IF data.kind = "data" THEN data.kv ELSE EmptyDict

InSecretCacheIfData(secret_cache, path) ==
    path \in DOMAIN secret_cache /\ secret_cache[path] # EmptyDict

\* path not in secret_cache, negated
InSecretCache(secret_cache, path) == path \in DOMAIN secret_cache

\* get_secret_value(config_key) applied to the state of the enclosing
\* _get_config_from_vault: secret_cache, the fetches made so far, whether an
\* exception is propagating, and the values computed so far
get_secret_value(vlt, secrets, i, st) ==
    LET secret_ref == secrets[CONFIG_KEYS[i]]
        path_key == _parse_secret_ref(secret_ref, <<CONFIG_KEYS[i]>>)
        path == path_key[1]
        key == path_key[2]
    IN  IF st.raised THEN st
        ELSE IF ~TruthyRef(secret_ref)
        THEN [st EXCEPT !.values = Append(@, NONE)]
        ELSE IF InSecretCache(st.secret_cache, path)
        THEN [st EXCEPT !.values = Append(@, DictGet(st.secret_cache[path], key))]
        ELSE LET data == VaultGetSecret(vlt, path)
             IN  IF data.kind = "raise"
                 THEN [st EXCEPT !.raised = TRUE, !.fetches = Append(@, path)]
                 ELSE [st EXCEPT
                         !.secret_cache = (path :> DataOrEmpty(data)) @@ @,
                         !.fetches = Append(@, path),
                         !.values = Append(@, DictGet(DataOrEmpty(data), key))]

RECURSIVE VaultValues(_, _, _, _)
VaultValues(vlt, secrets, i, st) ==
    IF i > 5 THEN st
    ELSE VaultValues(vlt, secrets, i + 1, get_secret_value(vlt, secrets, i, st))

\* except Exception as e: self.log.error(...); return None, of
\* _get_config_from_vault
VaultExcept(r) == IF IsRaising(r.config) THEN [r EXCEPT !.config = NoConfig] ELSE r

\* result: the config (or NoConfig), the secret paths fetched, in order, and
\* whether a VaultHook was constructed
_get_config_from_vault(vlt, secrets) ==
    VaultExcept(
        IF ~vlt.hookOk
        THEN [config |-> Raising, fetches |-> <<>>, vaultHookBuilt |-> TRUE]
        ELSE LET st == VaultValues(vlt, secrets, 1,
                         [secret_cache |-> [p \in {} |-> EmptyDict], fetches |-> <<>>,
                          raised |-> FALSE, values |-> <<>>])
             IN  IF st.raised
                 THEN [config |-> Raising, fetches |-> st.fetches,
                       vaultHookBuilt |-> TRUE]
                 ELSE [config |-> [f \in ConfigFields |->
                                     st.values[CHOOSE i \in 1..5 : ConfigField[i] = f]],
                       fetches |-> st.fetches, vaultHookBuilt |-> TRUE])

\* result of a connection tier that never reached _get_config_from_vault
NotConsulted == [config |-> NoConfig, fetches |-> <<>>, vaultHookBuilt |-> FALSE]

\* get_connection or json.loads raised, inside the try of
\* _get_config_from_connection
RaisingBeforeVault == [config |-> Raising, fetches |-> <<>>, vaultHookBuilt |-> FALSE]

ConnectionExceptMissing(r) == r

\* except Exception as e: self.log.error(...); return None, of
\* _get_config_from_connection
ConnectionExcept(r) == IF IsRaising(r.config) THEN [r EXCEPT !.config = NoConfig] ELSE r

UsesVaultWithMapping(conn) ==
    /\ Truthy(conn.extra.vault_conn_id)
    /\ conn.extra.vault_secrets_mapping.form \notin {"none", "emptystr", "emptydict"}

\* vault_conn_id = extra.get("vault_conn_id"); if vault_conn_id:
UsesVaultUnlessHost(conn) == Truthy(conn.extra.vault_conn_id) /\ ~Truthy(conn.host)

UsesVault(conn) == Truthy(conn.extra.vault_conn_id)

\* extra.get("vault_secrets_mapping") is modelled by its form: absent
\* ("none"), "" ("emptystr"), {} ("emptydict"), a str that json.loads
\* rejects ("badjson"), a value without .get such as a list ("nondict"), a
\* dict ("dict") or the JSON text of a dict ("json"); for the last two, map
\* gives the reference of each config key (NoRef when the key is missing)
_get_config_from_connection(store, vlt, conn_id) ==
    LET conn == store[conn_id]
    IN  ConnectionExcept(
        IF conn.kind = "raise" THEN RaisingBeforeVault
        ELSE LET extra == conn.extra
             IN  IF UsesVault(conn)
                 THEN LET secrets_raw == extra.vault_secrets_mapping
                      IN  IF secrets_raw.form \in {"none", "emptystr", "emptydict"}
                          THEN NotConsulted
                          ELSE IF secrets_raw.form = "badjson"
                          THEN RaisingBeforeVault
                          ELSE IF secrets_raw.form = "nondict"
                          THEN VaultExcept([config |-> Raising, fetches |-> <<>>,
                                            vaultHookBuilt |-> TRUE])
                          ELSE _get_config_from_vault(vlt, secrets_raw.map)
                 ELSE [config |-> [index_api_url |-> conn.host,
                                   index_api_token |-> conn.password,
                                   r2_access_key_id |-> extra.r2_access_key_id,
                                   r2_secret_access_key |-> extra.r2_secret_access_key,
                                   r2_endpoint_url |-> extra.r2_endpoint_url],
                       fetches |-> <<>>, vaultHookBuilt |-> FALSE])

NeedsEnvOnlyNone(config) == IsNoConfig(config)

\* config is None or not config.get("index_api_url")
NeedsEnv(config) == IsNoConfig(config) \/ ~Truthy(config.index_api_url)

_get_client_config_per_field(store, vlt, env, conn_id) ==
    LET fromConn == _get_config_from_connection(store, vlt, conn_id)
        fromEnv == _get_config_from_env(env)
    IN  [config |-> IF IsNoConfig(fromConn.config) THEN fromEnv
                    ELSE [f \in ConfigFields |->
                            IF Truthy(fromConn.config[f]) THEN fromConn.config[f]
                            ELSE fromEnv[f]],
         envRead |-> NeedsEnv(fromConn.config),
         connConfig |-> fromConn.config,
         fetches |-> fromConn.fetches,
         vaultHookBuilt |-> fromConn.vaultHookBuilt,
         conn_id |-> conn_id]

\* R2IndexUploadOperator._get_client_config / R2IndexDownloadOperator._get_client_config
\* result: the config, with the trace of what was read to build it
_get_client_config(store, vlt, env, conn_id) ==
    LET fromConn == _get_config_from_connection(store, vlt, conn_id)
        propagates == IsRaising(fromConn.config)
    IN  [config |-> IF propagates THEN Raising
                    ELSE IF NeedsEnv(fromConn.config)
                    THEN _get_config_from_env(env) ELSE fromConn.config,
         envRead |-> ~propagates /\ NeedsEnv(fromConn.config),
         connConfig |-> fromConn.config,
         fetches |-> fromConn.fetches,
         vaultHookBuilt |-> fromConn.vaultHookBuilt,
         conn_id |-> conn_id]

\* R2IndexHook.get_conn on a hook whose _client is h.client; ctorOk tells
\* whether the R2IndexClient constructor accepts the five values
NoClient == [none |-> TRUE]

HookNeedsEnvOnlyNone(config) == IsNoConfig(config)

\* config is None or not config.get("index_api_url"), in get_conn
HookNeedsEnv(config) == IsNoConfig(config) \/ ~Truthy(config.index_api_url)

AlwaysBuilds(h) == FALSE

\* if self._client is not None: return self._client
HasClient(h) == ~IsNoConfig(h.client)

\* h.last tells how the last call ended: "cached" (self._client returned),
\* "built" (client constructed and stored) or "failed" (exception)
get_conn(h, store, vlt, env, ctorOk) ==
    IF HasClient(h) THEN [h EXCEPT !.last = "cached"]
    ELSE LET fromConn == _get_config_from_connection(store, vlt, h.r2index_conn_id)
             propagates == IsRaising(fromConn.config)
             config == IF propagates THEN NoClient
                       ELSE IF HookNeedsEnv(fromConn.config)
                       THEN _get_config_from_env(env) ELSE fromConn.config
             built == ctorOk /\ ~propagates
         IN  [h EXCEPT !.client = IF built THEN config ELSE NoClient,
                       !.resolutions = @ + 1,
                       !.last = IF built THEN "built" ELSE "failed"]

----------------------------------------------------------------------------
(* The worlds the configuration chain is resolved in                       *)

ConnIds == {"r2index_default", "conn_b"}

Missing == [kind |-> "raise"]

NoMapping == [form |-> "none"]

RefsUrl == {NoRef, <<>>, <<"p">>, <<"p", "#", "k">>, <<"q", "#", "j">>}
RefsToken == {NoRef, <<"p", "#", "j">>}
RefsStorage == {NoRef, <<"q", "#", "k">>, <<"p">>}

SecretMaps ==
    {[r2index_api_url |-> r1, r2index_api_token |-> r2, r2_access_key_id |-> r3,
      r2_secret_access_key |-> r3, r2_endpoint_url |-> r3] :
        r1 \in RefsUrl, r2 \in RefsToken, r3 \in RefsStorage}

FullMap ==
    [r2index_api_url |-> <<"p", "#", "k">>, r2index_api_token |-> <<"p", "#", "j">>,
     r2_access_key_id |-> <<"q", "#", "k">>, r2_secret_access_key |-> <<"q", "#", "k">>,
     r2_endpoint_url |-> <<"q", "#", "k">>]

\* the mapping of the JSON text "{}"
EmptyMap == [k \in {CONFIG_KEYS[i] : i \in 1..5} |-> NoRef]

MappingShapes ==
    {[form |-> f] : f \in {"none", "emptystr", "emptydict", "badjson", "nondict"}}
    \cup {[form |-> "dict", map |-> m] : m \in SecretMaps}
    \cup {[form |-> "json", map |-> m] : m \in {FullMap, EmptyMap}}

DirectShapes ==
    {[host |-> h, password |-> IF full THEN "direct-token" ELSE NONE,
      access |-> IF full THEN "direct-access" ELSE NONE,
      secret |-> IF full THEN "direct-secret" ELSE NONE,
      endpoint |-> IF full THEN "direct-endpoint" ELSE NONE] :
        h \in {NONE, "", "https://direct"}, full \in BOOLEAN}

Connection(d, vault_conn_id, mapping) ==
    [kind |-> "conn", host |-> d.host, password |-> d.password,
     extra |-> [vault_conn_id |-> vault_conn_id,
                vault_secrets_mapping |-> mapping,
                r2_access_key_id |-> d.access,
                r2_secret_access_key |-> d.secret,
                r2_endpoint_url |-> d.endpoint]]

ConnShapes ==
    {Missing}
    \cup {Connection(d, v, NoMapping) : d \in DirectShapes, v \in {NONE, ""}}
    \cup {Connection(d, NONE, [form |-> "dict", map |-> FullMap]) : d \in DirectShapes}
    \cup {Connection(d, "openbao", m) : d \in DirectShapes, m \in MappingShapes}

SecretKeys == {<<"k">>, <<"j">>} \cup {<<CONFIG_KEYS[i]>> : i \in 1..5}

\* the value the vault holds under a path and a key in the full shape
VaultValue(path, key) == "vault:" \o path[1] \o ":" \o key[1]

SecretShapes(path) ==
    {[kind |-> "raise"], [kind |-> "none"],
     [kind |-> "data", kv |-> EmptyDict],
     [kind |-> "data", kv |-> [k \in SecretKeys |-> VaultValue(path, k)]],
     [kind |-> "data", kv |-> [k \in SecretKeys |->
         IF k \in {<<"k">>, <<"r2index_api_url">>} THEN "" ELSE VaultValue(path, k)]],
     [kind |-> "data", kv |-> [k \in {<<"k">>, <<"r2index_api_url">>} |->
         VaultValue(path, k)]]}

VaultDown == [hookOk |-> FALSE, secrets |-> [p \in {} |-> [kind |-> "none"]]]

\* the second path raises, has no data, or holds every key
FewSecretShapes(path) ==
    {sh \in SecretShapes(path) :
        sh.kind = "data" => sh.kv = [k \in SecretKeys |-> VaultValue(path, k)]}

VaultShapes ==
    {VaultDown}
    \cup {[hookOk |-> TRUE, secrets |-> (<<"p">> :> sp) @@ (<<"q">> :> sq)] :
            sp \in SecretShapes(<<"p">>), sq \in FewSecretShapes(<<"q">>)}

Env(url, full) ==
    [R2INDEX_API_URL |-> url,
     R2INDEX_API_TOKEN |-> IF full THEN "env-token" ELSE NONE,
     R2_ACCESS_KEY_ID |-> IF full THEN "env-access" ELSE NONE,
     R2_SECRET_ACCESS_KEY |-> IF full THEN "env-secret" ELSE NONE,
     R2_ENDPOINT_URL |-> IF full THEN "env-endpoint" ELSE NONE]

EnvShapes == {Env(u, f) : u \in {NONE, "", "https://env"}, f \in BOOLEAN}

----------------------------------------------------------------------------
(* State of one batch execution before it starts                           *)

NoResult == [status |-> "none"]

NoException == [type |-> "none"]

NotResolved == [config |-> NoConfig, envRead |-> FALSE, connConfig |-> NoConfig,
                fetches |-> <<>>, vaultHookBuilt |-> FALSE, conn_id |-> NONE]

FreshTask == [conn_id |-> NONE, bucket |-> NONE, config |-> NoConfig,
              pending |-> NoResult]

\* a client that was never constructed
NoClientYet == [state |-> "none", transfer |-> "no", bucket |-> NONE,
                config |-> NoConfig]

\* no call of _parse_secret_ref and none of get_link was made
NotParsed == [secret_ref |-> <<>>, config_key |-> NONE, called |-> FALSE,
              path |-> <<>>, key |-> <<>>]

NoXCom == [form |-> "none"]

NoLink == [called |-> FALSE, raised |-> FALSE, url |-> ""]

PureIdle ==
    /\ parsed = NotParsed
    /\ xcom = NoXCom
    /\ link = NoLink

HookIdle ==
    /\ connections = [c \in ConnIds |-> Missing]
    /\ vault = VaultDown
    /\ environ = Env(NONE, FALSE)
    /\ opResolved = NotResolved
    /\ hookClient = [r2index_conn_id |-> "r2index_default", client |-> NoClient,
                     resolutions |-> 0, last |-> "none"]

BatchIdle ==
    /\ kind = "upload"
    /\ items = <<>>
    /\ conn_configs = [c \in {} |-> NoConfig]
    /\ resolveCalls = [c \in ConnIds |-> 0]
    /\ pc = <<>>
    /\ task = <<>>
    /\ taskResult = <<>>
    /\ clientState = <<>>
    /\ finished = <<>>
    /\ xpc = "init"
    /\ results = <<>>
    /\ logged = <<>>
    /\ raised = NoException
    /\ returned = <<>>

----------------------------------------------------------------------------
(* Specification of the configuration chain: any world, then resolutions   *)

InitHook ==
    /\ \E shape \in ConnShapes :
          connections = [c \in ConnIds |->
                           IF c = "r2index_default" THEN shape ELSE Missing]
    /\ vault \in VaultShapes
    /\ environ \in EnvShapes
    /\ opResolved = NotResolved
    /\ hookClient = [r2index_conn_id |-> "r2index_default", client |-> NoClient,
                     resolutions |-> 0, last |-> "none"]
    /\ BatchIdle
    /\ PureIdle

\* bound on the resolutions one hook instance is followed through
MaxResolutions == 2

\* an operator resolves the client configuration of a connection id
OperatorResolve ==
    /\ \E conn_id \in ConnIds :
          opResolved' = _get_client_config(connections, vault, environ, conn_id)
    /\ UNCHANGED <<pureVars, worldVars, hookClient, batchVars>>

\* a call of get_conn on the hook, directly or from upload, download,
\* get_file or list_files, which all start with client = self.get_conn()
HookGetConn ==
    /\ hookClient.resolutions < MaxResolutions
    /\ \E ctorOk \in BOOLEAN :
          hookClient' = get_conn(hookClient, connections, vault, environ, ctorOk)
    /\ UNCHANGED <<pureVars, worldVars, opResolved, batchVars>>

NextHook == OperatorResolve \/ HookGetConn

SpecHook == InitHook /\ [][NextHook]_vars

----------------------------------------------------------------------------
(* One hook instance in a world that changes between its calls            *)

\* the connections a hook is followed with: lookup failure, direct fields,
\* vault reference with the full mapping
CacheConnShapes ==
    {Missing}
    \cup {Connection(d, NONE, NoMapping) : d \in DirectShapes}
    \cup {Connection(d, "openbao", [form |-> "dict", map |-> FullMap]) :
            d \in DirectShapes}

CacheVaultShapes ==
    {VaultDown,
     [hookOk |-> TRUE,
      secrets |-> (<<"p">> :> [kind |-> "data",
                               kv |-> [k \in SecretKeys |-> VaultValue(<<"p">>, k)]])
                  @@ (<<"q">> :> [kind |-> "data",
                                  kv |-> [k \in SecretKeys |-> VaultValue(<<"q">>, k)]])]}

InitCache ==
    /\ \E shape \in CacheConnShapes :
          connections = [c \in ConnIds |->
                           IF c = "r2index_default" THEN shape ELSE Missing]
    /\ vault \in CacheVaultShapes
    /\ environ \in EnvShapes
    /\ opResolved = NotResolved
    /\ hookClient = [r2index_conn_id |-> "r2index_default", client |-> NoClient,
                     resolutions |-> 0, last |-> "none"]
    /\ BatchIdle
    /\ PureIdle

\* the connection, the vault secrets or the environment variables change
\* between two calls on the hook
WorldChange ==
    /\ \E shape \in CacheConnShapes :
          connections' = [connections EXCEPT !["r2index_default"] = shape]
    /\ vault' \in CacheVaultShapes
    /\ environ' \in EnvShapes
    /\ <<connections', vault', environ'>> # <<connections, vault, environ>>
    /\ UNCHANGED <<pureVars, hookVars, batchVars>>

NextCache == HookGetConn \/ WorldChange

SpecCache == InitCache /\ [][NextCache]_vars

----------------------------------------------------------------------------
(* Specification of _parse_secret_ref: any reference, then the call        *)

\* bound on the length of a secret reference
MaxRefLen == 3

\* the characters of a reference: a letter, a path separator, the key separator
RefChars == {"a", "/", "#"}

SecretRefs == UNION {[1..n -> RefChars] : n \in 0..MaxRefLen}

InitParse ==
    /\ \E r \in SecretRefs, i \in 1..5 :
          parsed = [NotParsed EXCEPT !.secret_ref = r, !.config_key = CONFIG_KEYS[i]]
    /\ xcom = NoXCom
    /\ link = NoLink
    /\ HookIdle
    /\ BatchIdle

\* path, key = self._parse_secret_ref(secret_ref, config_key)
ParseRef ==
    /\ ~parsed.called
    /\ LET r == _parse_secret_ref(parsed.secret_ref, <<parsed.config_key>>)
       IN  parsed' = [parsed EXCEPT !.called = TRUE, !.path = r[1], !.key = r[2]]
    /\ UNCHANGED <<worldVars, hookVars, batchVars, xcom, link>>

SpecParse == InitParse /\ [][ParseRef]_vars

----------------------------------------------------------------------------
(* R2IndexFileLink.get_link: any persisted return value, then the call     *)

\* a key the mapping does not have
ABSENT == "<absent>"

IdValues == {ABSENT, NONE, "", "abc", "xyz"}

\* the file_record entry of a mapping: no such key, None, a string, a mapping
FileRecordValues ==
    {[form |-> f] : f \in {"absent", "null", "str"}}
    \cup {[form |-> "dict", id |-> v] : v \in IdValues}

\* the persisted value: None, a list, a string, or a mapping with or without
\* id, file_record and other keys
XComValues ==
    {[form |-> f] : f \in {"none", "list", "str"}}
    \cup {[form |-> "dict", id |-> v, file_record |-> fr, other |-> o] :
            v \in IdValues, fr \in FileRecordValues, o \in BOOLEAN}

\* a mapping without any key is falsy
IsEmptyMapping(result) ==
    result.id = ABSENT /\ result.file_record.form = "absent" /\ ~result.other

\* d.get("id")
GetId(v) == IF v = ABSENT THEN NONE ELSE v

LinkBase == "https://r2index.elaunira.com/files/"

Returns(url) == [called |-> TRUE, raised |-> FALSE, url |-> url]

\* AttributeError: .get on a value that is not a mapping
RaisesAttributeError == [called |-> TRUE, raised |-> TRUE, url |-> ""]

get_link(result) ==
    IF result.form = "dict" /\ ~IsEmptyMapping(result)
    THEN IF Truthy(GetId(result.id))
         THEN Returns(LinkBase \o GetId(result.id))
         ELSE LET file_record == result.file_record
              IN  IF file_record.form \in {"null", "str"}
                  THEN RaisesAttributeError
                  ELSE LET file_id == IF file_record.form = "absent" THEN NONE
                                      ELSE GetId(file_record.id)
                       IN  IF Truthy(file_id)
                           THEN Returns(LinkBase \o file_id)
                           ELSE Returns("")
    ELSE Returns("")

InitLink ==
    /\ xcom \in XComValues
    /\ link = NoLink
    /\ parsed = NotParsed
    /\ HookIdle
    /\ BatchIdle

\* the host asks for the link of a task instance
GetLink ==
    /\ ~link.called
    /\ link' = get_link(xcom)
    /\ UNCHANGED <<worldVars, hookVars, batchVars, parsed, xcom>>

SpecLink == InitLink /\ [][GetLink]_vars

----------------------------------------------------------------------------
(* R2IndexUploadOperator.execute / R2IndexDownloadOperator.execute         *)

\* bound on the number of items of a batch
MaxItems == 2

\* the operator's own bucket and r2index_conn_id
SelfBucket == "bucket_default"

SelfConnId == "r2index_default"

PyOrDefaultFirst(a, b) == IF b # NONE /\ b # "" THEN b ELSE a

\* a or b
PyOr(a, b) == IF Truthy(a) THEN a ELSE b

\* item.source of an UploadItem, item.source_path of a DownloadItem
Ident(i) == "file" \o ToString(i)

\* what the client returns for an item: file_record.model_dump() and
\* str(downloaded_path)
RecordOf(item) == "record:" \o item.ident

PathOf(item) == "path:" \o item.ident

\* the dict of the except clause of upload_one / download_one
ErrorResult(k, item, message) ==
    IF k = "upload"
    THEN [status |-> "error", message |-> message, source |-> item.ident]
    ELSE [status |-> "error", message |-> message, source_path |-> item.ident]

Uncaught(k, item, message) == [status |-> "raised", message |-> message]

\* except Exception as e: return {...}
Caught(k, item, message) == ErrorResult(k, item, message)

\* the dict upload_one / download_one returns after the client call; a
\* download may come without a file record
SuccessResult(k, item, hasRecord) ==
    IF k = "upload"
    THEN [status |-> "success", file_record |-> RecordOf(item)]
    ELSE [status |-> "success", path |-> PathOf(item),
          file_record |-> IF hasRecord THEN RecordOf(item) ELSE NONE]

NeverCached(cc, conn_id) == TRUE

\* conn_id not in conn_configs
NotCached(cc, conn_id) == conn_id \notin DOMAIN cc

\* get_or_create_config: the conn_configs dict after the call
get_or_create_config(cc, store, vlt, env, conn_id) ==
    IF NotCached(cc, conn_id)
    THEN (conn_id :> _get_client_config(store, vlt, env, conn_id).config) @@ cc
    ELSE cc

GatherAsCompleted(values, completion) ==
    [i \in DOMAIN values |->
        IF i \in DOMAIN completion THEN values[completion[i]] ELSE values[i]]

\* the list asyncio.gather returns: the tasks' values in the order of the
\* awaitables it was given
Gather(values, completion) == values

ReturnValueWholeDict(k, res) ==
    IF k = "upload"
    THEN [i \in DOMAIN res |-> res[i].file_record]
    ELSE res

\* the value execute returns when no item failed
ReturnValue(k, res) ==
    IF k = "upload"
    THEN [i \in DOMAIN res |-> res[i].file_record]
    ELSE [i \in DOMAIN res |-> [path |-> res[i].path,
                                file_record |-> res[i].file_record]]

\* errors = [r for r in results if r.get("status") == "error"]
IsError(r) == r.status = "error"

ErrorsAll(res) == res

Errors(res) == SelectSeq(res, IsError)

FailedOrEmpty(res) == Errors(res) # <<>> \/ res = <<>>

\* if errors:
Failed(res) == Errors(res) # <<>>

DoneOrFirstError ==
    \/ \A i \in DOMAIN pc : pc[i] = "done"
    \/ \E i \in DOMAIN pc : pc[i] = "done" /\ taskResult[i].status = "error"

\* await asyncio.gather(*tasks) returns once every task is done
AllDone == \A i \in DOMAIN pc : pc[i] = "done"

\* an exception left an item coroutine (no except clause caught it)
Escaped == \E i \in DOMAIN pc : pc[i] = "done" /\ taskResult[i].status = "raised"

\* an item task finishes with the value v
Finish(i, v) ==
    /\ pc' = [pc EXCEPT ![i] = "done"]
    /\ taskResult' = [taskResult EXCEPT ![i] = v]
    /\ finished' = Append(finished, i)

\* execute up to asyncio.run: the progress group is opened and one task per
\* item is created
ExecuteStart ==
    /\ xpc = "init"
    /\ xpc' = "running"
    /\ logged' = Append(logged, [level |-> "info", text |-> "::group::", payload |-> <<>>])
    /\ UNCHANGED <<pureVars, worldVars, hookVars, kind, items, conn_configs, resolveCalls, pc,
                   task, taskResult, clientState, finished, results, raised, returned>>

\* the thread of the event loop is inside a call of _get_client_config, a
\* plain (blocking) call made from a coroutine: no task runs meanwhile
LoopBlocked == \E k \in DOMAIN pc : pc[k] = "resolving"

\* async with AsyncR2IndexClient(**config) as client: the constructor, then
\* the call of __aenter__, the first suspension of the item task
EnterClient(i, config) ==
    \E ctorOk \in BOOLEAN :
        IF ctorOk
        THEN /\ pc' = [pc EXCEPT ![i] = "opening"]
             /\ clientState' = [clientState EXCEPT ![i] =
                    [state |-> "opening", transfer |-> "no", bucket |-> NONE,
                     config |-> config]]
             /\ UNCHANGED <<taskResult, finished>>
        ELSE /\ Finish(i, Caught(kind, items[i], "constructor failed"))
             /\ clientState' = [clientState EXCEPT ![i] =
                    [state |-> "ctor_failed", transfer |-> "no", bucket |-> NONE,
                     config |-> config]]

\* upload_one / download_one from its first line: effective connection id and
\* bucket, then get_or_create_config.  With the config of the connection id
\* in conn_configs the task goes on to its client; otherwise it enters
\* _get_client_config
StartTask(i) ==
    /\ xpc = "running" /\ ~Escaped /\ ~LoopBlocked
    /\ pc[i] = "created"
    /\ LET item == items[i]
           conn_id == PyOr(item.r2index_conn_id, SelfConnId)
           bucket == PyOr(item.bucket, SelfBucket)
       IN  IF NotCached(conn_configs, conn_id)
           THEN /\ pc' = [pc EXCEPT ![i] = "resolving"]
                /\ task' = [task EXCEPT ![i] = [conn_id |-> conn_id, bucket |-> bucket,
                                                config |-> NoConfig,
                                                pending |-> NoResult]]
                /\ UNCHANGED <<taskResult, finished, clientState>>
           ELSE /\ task' = [task EXCEPT ![i] = [conn_id |-> conn_id, bucket |-> bucket,
                                                config |-> conn_configs[conn_id],
                                                pending |-> NoResult]]
                /\ EnterClient(i, conn_configs[conn_id])
    /\ UNCHANGED <<pureVars, worldVars, hookVars, kind, items, conn_configs,
                   resolveCalls, xpc, results, logged, raised, returned>>

\* _get_client_config returns: the config is stored in conn_configs and the
\* item task goes on to its client, up to its first suspension
ResolveDone(i) ==
    /\ xpc = "running" /\ ~Escaped
    /\ pc[i] = "resolving"
    /\ LET conn_id == task[i].conn_id
           cc == get_or_create_config(conn_configs, connections, vault, environ, conn_id)
       IN  /\ conn_configs' = cc
           /\ resolveCalls' = [resolveCalls EXCEPT ![conn_id] = @ + 1]
           /\ task' = [task EXCEPT ![i].config = cc[conn_id]]
           /\ EnterClient(i, cc[conn_id])
    /\ UNCHANGED <<pureVars, worldVars, hookVars, kind, items, xpc, results, logged,
                   raised, returned>>

\* __aenter__ completes or raises, then client.upload / client.download is called
OpenDone(i) ==
    /\ xpc = "running" /\ ~Escaped /\ ~LoopBlocked
    /\ pc[i] = "opening"
    /\ \E ok \in BOOLEAN :
         IF ok
         THEN /\ pc' = [pc EXCEPT ![i] = "transferring"]
              /\ clientState' = [clientState EXCEPT ![i].state = "open",
                                                    ![i].bucket = task[i].bucket]
              /\ UNCHANGED <<taskResult, finished>>
         ELSE /\ Finish(i, Caught(kind, items[i], "open failed"))
              /\ clientState' = [clientState EXCEPT ![i].state = "open_failed"]
    /\ UNCHANGED <<pureVars, worldVars, hookVars, kind, items, conn_configs, resolveCalls, task,
                   xpc, results, logged, raised, returned>>

ClosesAfterSuccessOnly(outcome) == outcome = "ok"

\* async with: __aexit__ is called however the block is left
ClosesAfter(outcome) == TRUE

\* client.upload / client.download completes or raises, then __aexit__ is called
TransferDone(i) ==
    /\ xpc = "running" /\ ~Escaped /\ ~LoopBlocked
    /\ pc[i] = "transferring"
    /\ \E outcome \in {"ok", "failed"}, hasRecord \in BOOLEAN :
         /\ (kind = "upload" \/ outcome = "failed") => hasRecord
         /\ LET pending == IF outcome = "ok"
                           THEN SuccessResult(kind, items[i], hasRecord)
                           ELSE [status |-> "raising", message |-> "transfer failed"]
            IN  IF ClosesAfter(outcome)
                THEN /\ task' = [task EXCEPT ![i].pending = pending]
                     /\ clientState' = [clientState EXCEPT ![i].state = "closing",
                                                           ![i].transfer = outcome]
                     /\ pc' = [pc EXCEPT ![i] = "closing"]
                     /\ UNCHANGED <<taskResult, finished>>
                ELSE /\ clientState' = [clientState EXCEPT ![i].transfer = outcome]
                     /\ Finish(i, IF outcome = "ok" THEN pending
                                  ELSE Caught(kind, items[i], pending.message))
                     /\ UNCHANGED task
    /\ UNCHANGED <<pureVars, worldVars, hookVars, kind, items, conn_configs, resolveCalls,
                   xpc, results, logged, raised, returned>>

\* __aexit__ completes or raises; the coroutine returns its dict
CloseDone(i) ==
    /\ xpc = "running" /\ ~Escaped /\ ~LoopBlocked
    /\ pc[i] = "closing"
    /\ \E ok \in BOOLEAN :
         /\ clientState' = [clientState EXCEPT ![i].state =
                              IF ok THEN "closed" ELSE "close_failed"]
         /\ Finish(i, IF ~ok THEN Caught(kind, items[i], "close failed")
                      ELSE IF task[i].pending.status = "raising"
                      THEN Caught(kind, items[i], task[i].pending.message)
                      ELSE task[i].pending)
    /\ task' = [task EXCEPT ![i].pending = NoResult]
    /\ UNCHANGED <<pureVars, worldVars, hookVars, kind, items, conn_configs, resolveCalls,
                   xpc, results, logged, raised, returned>>

\* execute from the return of asyncio.run to its end.  gather returns when
\* every task is done; an exception leaving a task would reach execute at once
ExecuteFinish ==
    /\ xpc = "running" /\ ~LoopBlocked
    /\ AllDone \/ Escaped
    /\ IF Escaped
       THEN /\ xpc' = "raised"
            /\ raised' = [type |-> "Exception"]
            /\ UNCHANGED <<results, logged, returned>>
       ELSE LET res == Gather(taskResult, finished)
                errors == Errors(res)
                endgroup == [level |-> "info", text |-> "::endgroup::", payload |-> <<>>]
            IN  /\ results' = res
                /\ IF Failed(res)
                   THEN /\ logged' = logged \o <<endgroup,
                               [level |-> "error", text |-> "Failed", payload |-> errors]>>
                        /\ raised' = [type |-> "AirflowException",
                                      failed |-> Len(errors), total |-> Len(res)]
                        /\ xpc' = "raised"
                        /\ UNCHANGED returned
                   ELSE /\ logged' = logged \o <<endgroup,
                               [level |-> "info", text |-> "Transferred",
                                payload |-> <<Len(res)>>]>>
                        /\ returned' = ReturnValue(kind, res)
                        /\ xpc' = "returned"
                        /\ UNCHANGED raised
    /\ UNCHANGED <<pureVars, worldVars, hookVars, kind, items, conn_configs, resolveCalls, pc,
                   task, taskResult, clientState, finished>>

\* the environment variables of the worker change while the batch runs, before
\* the last call of get_or_create_config
EnvA == Env("https://env", TRUE)

EnvB == Env("https://other", FALSE)

EnvChange ==
    /\ xpc = "running"
    /\ DOMAIN conn_configs # {}
    /\ \E i \in DOMAIN pc : pc[i] = "created"
    /\ environ = EnvA
    /\ environ' = EnvB
    /\ UNCHANGED <<pureVars, connections, vault, hookVars, batchVars>>

\* the per-item overrides of bucket and r2index_conn_id: unset, empty, set
ItemOverrides ==
    {<<NONE, NONE>>, <<"", "conn_b">>, <<"bucket_item", "">>}

\* the item lists of length n with overrides among the given ones
ItemsWith(n, overrides) ==
    {[i \in 1..n |-> [ident |-> Ident(i), bucket |-> o[i][1],
                      r2index_conn_id |-> o[i][2]]] :
        o \in [1..n -> overrides]}

Items(n) == ItemsWith(n, ItemOverrides)

DirectConnection ==
    Connection([host |-> "https://direct", password |-> "direct-token",
                access |-> "direct-access", secret |-> "direct-secret",
                endpoint |-> "direct-endpoint"], NONE, NoMapping)

\* an operator constructed with a list of items, before execute
InitBatch(itemLists) ==
    /\ connections = [c \in ConnIds |->
                        IF c = SelfConnId THEN DirectConnection ELSE Missing]
    /\ vault = VaultDown
    /\ environ = EnvA
    /\ opResolved = NotResolved
    /\ hookClient = [r2index_conn_id |-> SelfConnId, client |-> NoClient,
                     resolutions |-> 0, last |-> "none"]
    /\ kind \in {"upload", "download"}
    /\ \E n \in 0..MaxItems :
         /\ items \in itemLists[n]
         /\ pc = [i \in 1..n |-> "created"]
         /\ task = [i \in 1..n |-> FreshTask]
         /\ taskResult = [i \in 1..n |-> NoResult]
         /\ clientState = [i \in 1..n |-> NoClientYet]
    /\ conn_configs = [c \in {} |-> NoConfig]
    /\ resolveCalls = [c \in ConnIds |-> 0]
    /\ finished = <<>>
    /\ xpc = "init"
    /\ results = <<>>
    /\ logged = <<>>
    /\ raised = NoException
    /\ returned = <<>>
    /\ PureIdle

Init == InitBatch([n \in 0..MaxItems |-> Items(n)])

\* the return value of execute as the host persists it: a list
XComOf(value) == [form |-> "list", entries |-> value]

\* the host has stored the value execute returned as the return_value XCom
\* of the task instance and asks the operator's extra link for its URL
TaskLink ==
    /\ xpc = "returned"
    /\ ~link.called
    /\ xcom' = XComOf(returned)
    /\ link' = get_link(XComOf(returned))
    /\ UNCHANGED <<parsed, worldVars, hookVars, batchVars>>

Next ==
    \/ ExecuteStart
    \/ \E i \in DOMAIN pc : StartTask(i)
    \/ \E i \in DOMAIN pc : ResolveDone(i)
    \/ \E i \in DOMAIN pc : OpenDone(i)
    \/ \E i \in DOMAIN pc : TransferDone(i)
    \/ \E i \in DOMAIN pc : CloseDone(i)
    \/ ExecuteFinish
    \/ EnvChange
    \/ TaskLink

Spec == Init /\ [][Next]_vars

\* items with or without a connection id of their own
LiveOverrides == {<<NONE, NONE>>, <<"", "conn_b">>}

InitLive == InitBatch([n \in 0..MaxItems |-> ItemsWith(n, LiveOverrides)])

\* a step of item task i
TaskStep(i) ==
    /\ i \in DOMAIN pc
    /\ StartTask(i) \/ ResolveDone(i) \/ OpenDone(i) \/ TransferDone(i) \/ CloseDone(i)

\* the batch under the scheduling of asyncio.run: execute goes on, the event
\* loop runs every task that can run, and every call a task waits for
\* (_get_client_config, __aenter__, upload / download, __aexit__) returns or
\* raises
SpecLive ==
    /\ InitLive /\ [][Next]_vars
    /\ WF_vars(ExecuteStart)
    /\ WF_vars(ExecuteFinish)
    /\ \A i \in 1..MaxItems : WF_vars(TaskStep(i))

----------------------------------------------------------------------------
(* Properties of the batch execution                                       *)

Ended == xpc \in {"returned", "raised"}

\* item task i has its config: it went through get_or_create_config
Started(i) == pc[i] \notin {"created", "resolving"}

\* the client call of item i raised: in the constructor, in __aenter__, in
\* upload / download, or in __aexit__
ClientRaised(i) ==
    \/ clientState[i].state \in {"ctor_failed", "open_failed", "close_failed"}
    \/ clientState[i].transfer = "failed"

\* the message of the error that left the client call of item i
RaisedMessage(i) ==
    CASE clientState[i].state = "ctor_failed" -> "constructor failed"
      [] clientState[i].state = "open_failed" -> "open failed"
      [] clientState[i].state = "close_failed" -> "close failed"
      [] OTHER -> "transfer failed"

\* r names item i by its identifying field
NamesItem(r, i) ==
    IF kind = "upload"
    THEN "source" \in DOMAIN r /\ r.source = "file" \o ToString(i)
    ELSE "source_path" \in DOMAIN r /\ r.source_path = "file" \o ToString(i)

\* r is the outcome of the transfer of item i, as the client saw it
IsOutcomeOf(r, i) ==
    IF ClientRaised(i)
    THEN /\ r.status = "error"
         /\ r.message = RaisedMessage(i)
         /\ NamesItem(r, i)
    ELSE /\ r.status = "success"
         /\ clientState[i].state = "closed"
         /\ r.file_record \in {"record:file" \o ToString(i), NONE}
         /\ kind = "download" => r.path = "path:file" \o ToString(i)

\* C1: when a batch has ended, whatever the order in which the item transfers
\* completed, the collected results have the length of the item list and the
\* result at position i is the outcome of the item at position i (and so is
\* the entry at position i of the returned value)
C1_ResultsFollowInputOrder ==
    (Ended /\ raised.type # "Exception") =>
        /\ Len(results) = Len(items)
        /\ \A i \in DOMAIN items : IsOutcomeOf(results[i], i)
        /\ xpc = "returned" =>
             /\ Len(returned) = Len(items)
             /\ \A i \in DOMAIN items :
                  IF kind = "upload" THEN returned[i] = results[i].file_record
                  ELSE returned[i] = [path |-> "path:file" \o ToString(i),
                                      file_record |-> results[i].file_record]

\* a batch has ended whose second item completed before its first one and
\* whose two items had different outcomes
C1_Witness ==
    /\ Ended
    /\ Len(items) >= 2
    /\ finished[1] = 2
    /\ results[1].status = "error"
    /\ results[2].status = "success"

\* C2: an item whose client call raised (constructor, open, transfer or close)
\* has an error result with the error's message and the item's identifying
\* field; once the batch has ended every item of it was attempted and has its
\* own result in the results, none dropped
C2_FailureIsolated ==
    /\ \A i \in DOMAIN items :
         (pc[i] = "done" /\ ClientRaised(i)) =>
            /\ taskResult[i].status = "error"
            /\ taskResult[i].message = RaisedMessage(i)
            /\ NamesItem(taskResult[i], i)
            /\ DOMAIN taskResult[i] =
                 {"status", "message", IF kind = "upload" THEN "source" ELSE "source_path"}
    /\ Ended =>
         /\ \A j \in DOMAIN items :
              /\ clientState[j].state
                   \in {"ctor_failed", "open_failed", "closed", "close_failed"}
              /\ pc[j] = "done"
         /\ Len(results) = Len(items)
         /\ \A j \in DOMAIN items : results[j].status \in {"success", "error"}

\* a batch has ended in which the first item to complete failed when its
\* client was opened and another item was then transferred successfully
C2_Witness ==
    /\ Ended
    /\ \E i, j \in DOMAIN items :
         /\ finished[1] = i
         /\ clientState[i].state = "open_failed"
         /\ results[i].status = "error"
         /\ clientState[j].transfer = "ok"
         /\ results[j].status = "success"

\* the items whose coroutine returned an error result
FailedItems == {i \in DOMAIN taskResult : taskResult[i].status = "error"}

\* C3: execute raises the batch failure exactly when at least one item result
\* is an error, the failure then reports (number of error results)/(number of
\* items); when no item result is an error it returns and raises nothing
C3_RaisesIffSomeItemFailed ==
    Ended =>
        /\ (xpc = "raised") <=> (FailedItems # {})
        /\ xpc = "raised" =>
             /\ raised.type = "AirflowException"
             /\ raised.failed = Cardinality(FailedItems)
             /\ raised.total = Len(items)
        /\ xpc = "returned" =>
             /\ raised = NoException
             /\ Len(returned) = Len(items)

\* a batch of two items has raised with one failed item out of two
C3_Witness ==
    /\ xpc = "raised"
    /\ Len(items) = 2
    /\ raised.type = "AirflowException"
    /\ raised.failed = 1
    /\ raised.total = 2

\* C4: in one batch the configuration of a connection id is resolved at most
\* once, and all item tasks with that effective connection id use one and the
\* same config, also when the environment it is resolved from changes between
\* their starts
C4_ConfigResolvedOncePerConnId ==
    /\ \A c \in ConnIds : resolveCalls[c] <= 1
    /\ \A i, j \in DOMAIN items :
         (Started(i) /\ Started(j) /\ task[i].conn_id = task[j].conn_id) =>
            /\ task[i].config = task[j].config
            /\ clientState[i].config = clientState[j].config
    /\ \A i \in DOMAIN items :
         Started(i) => resolveCalls[task[i].conn_id] = 1

\* two item tasks sharing a connection id whose config comes from the
\* environment are both in flight, the environment having changed meanwhile
C4_Witness ==
    \E i, j \in DOMAIN items :
        /\ i # j
        /\ pc[i] = "opening" /\ pc[j] = "opening"
        /\ task[i].conn_id = "conn_b" /\ task[j].conn_id = "conn_b"
        /\ task[i].config.index_api_url = "https://env"
        /\ environ.R2INDEX_API_URL = "https://other"

\* C5: execute neither returns nor raises before the transfer of every item
\* has finished, with success or with failure
C5_WaitsForEveryItem ==
    Ended =>
        \A i \in DOMAIN items :
            /\ pc[i] = "done"
            /\ taskResult[i].status \in {"success", "error"}
            /\ clientState[i].state \notin {"none", "opening", "open", "closing"}

\* a batch has raised in which the first item to complete failed and the
\* last one to complete was transferred and closed normally
C5_Witness ==
    /\ xpc = "raised"
    /\ Len(items) >= 2
    /\ Len(finished) = Len(items)
    /\ taskResult[finished[1]].status = "error"
    /\ taskResult[finished[Len(finished)]].status = "success"
    /\ clientState[finished[Len(finished)]].state = "closed"

\* the item results execute passed to the log
LoggedResults ==
    UNION {{logged[n].payload[m] : m \in DOMAIN logged[n].payload} :
             n \in {n \in DOMAIN logged : logged[n].text = "Failed"}}

\* C6: when the batch failure is raised, every item result of the batch,
\* the successes as well as the failures, has been logged or returned
C6_AllResultsSurfacedOnFailure ==
    (xpc = "raised" /\ raised.type = "AirflowException") =>
        \A i \in DOMAIN results :
            results[i] \in LoggedResults \/ i \in DOMAIN returned

\* C7: a batch with an empty item list returns an empty sequence, raises
\* nothing, resolves no configuration and opens no client
C7_EmptyBatch ==
    (Ended /\ items = <<>>) =>
        /\ xpc = "returned"
        /\ returned = <<>>
        /\ results = <<>>
        /\ raised = NoException
        /\ \A c \in ConnIds : resolveCalls[c] = 0
        /\ DOMAIN conn_configs = {}
        /\ clientState = <<>>
        /\ finished = <<>>

\* an empty batch has ended
C7_Witness ==
    /\ items = <<>>
    /\ xpc = "returned"
    /\ Len(logged) = 3

\* C8 as stated: an item's own bucket / connection id is the effective one
\* whenever the item sets it, the empty string included
C8_Original ==
    \A i \in DOMAIN items :
        Started(i) =>
            /\ task[i].bucket =
                 IF items[i].bucket # NONE THEN items[i].bucket ELSE "bucket_default"
            /\ task[i].conn_id =
                 IF items[i].r2index_conn_id # NONE THEN items[i].r2index_conn_id
                 ELSE "r2index_default"

\* C8 (amended): every item is transferred with one effective bucket and one
\* effective connection id: the item's own value when the item sets a
\* non-empty one, the batch default when the item's value is unset or empty
C8_EffectiveBucketAndConnId ==
    \A i \in DOMAIN items :
        Started(i) =>
            /\ task[i].bucket =
                 IF items[i].bucket \in {NONE, ""} THEN "bucket_default"
                 ELSE items[i].bucket
            /\ task[i].conn_id =
                 IF items[i].r2index_conn_id \in {NONE, ""} THEN "r2index_default"
                 ELSE items[i].r2index_conn_id
            /\ task[i].config = conn_configs[task[i].conn_id]
            /\ clientState[i].config = task[i].config
            /\ clientState[i].state \in {"open", "closing", "closed", "close_failed"}
                 => clientState[i].bucket = task[i].bucket

\* an item with an empty bucket and its own connection id is being
\* transferred to the default bucket through its own connection
C8_Witness ==
    \E i \in DOMAIN items :
        /\ pc[i] = "transferring"
        /\ items[i].bucket = ""
        /\ items[i].r2index_conn_id = "conn_b"
        /\ clientState[i].bucket = "bucket_default"
        /\ task[i].conn_id = "conn_b"

----------------------------------------------------------------------------
(* Properties of the configuration chain                                   *)

DefaultConn == connections["r2index_default"]

\* the references of the worlds are "path" or "path#key" with one-character
\* path and key: the secret path and secret key a reference designates
RefPath(ref) == IF Len(ref) = 3 THEN <<ref[1]>> ELSE ref

RefKey(ref, config_key) == IF Len(ref) = 3 THEN <<ref[3]>> ELSE <<config_key>>

\* the value the vault holds for a config key under a mapping, NONE if none
Held(map, config_key) ==
    LET ref == map[config_key]
        path == RefPath(ref)
        key == RefKey(ref, config_key)
    IN  IF ref \in {NoRef, <<>>} THEN NONE
        ELSE IF path \notin DOMAIN vault.secrets THEN NONE
        ELSE IF vault.secrets[path].kind # "data" THEN NONE
        ELSE IF key \notin DOMAIN vault.secrets[path].kv THEN NONE
        ELSE vault.secrets[path].kv[key]

\* the default connection declares a vault connection and a mapping, the
\* vault answers, and it holds a secret for each of the five config keys
VaultComplete ==
    /\ DefaultConn.kind = "conn"
    /\ DefaultConn.extra.vault_conn_id \notin {NONE, ""}
    /\ DefaultConn.extra.vault_secrets_mapping.form \in {"dict", "json"}
    /\ vault.hookOk
    /\ \A i \in 1..5 :
         Held(DefaultConn.extra.vault_secrets_mapping.map, CONFIG_KEYS[i]) # NONE

VaultConfig ==
    LET map == DefaultConn.extra.vault_secrets_mapping.map
    IN  [index_api_url |-> Held(map, "r2index_api_url"),
         index_api_token |-> Held(map, "r2index_api_token"),
         r2_access_key_id |-> Held(map, "r2_access_key_id"),
         r2_secret_access_key |-> Held(map, "r2_secret_access_key"),
         r2_endpoint_url |-> Held(map, "r2_endpoint_url")]

ResolvedDefault == opResolved.conn_id = "r2index_default"

\* C9 as stated: with a vault reference and all five mapped secrets held, the
\* resolved config is made of the vault values whatever the direct fields and
\* the environment contain
C9_Original ==
    VaultComplete =>
        /\ ResolvedDefault => opResolved.config = VaultConfig
        /\ ~IsNoConfig(hookClient.client) => hookClient.client = VaultConfig

\* C9 (amended): with a vault reference and all five mapped secrets held, the
\* index API URL held being non-empty, the resolved config is made of the
\* vault values whatever the direct fields and the environment contain
C9_VaultValuesWin ==
    (VaultComplete /\ VaultConfig.index_api_url # "") =>
        /\ ResolvedDefault =>
             /\ opResolved.config = VaultConfig
             /\ ~opResolved.envRead
        /\ ~IsNoConfig(hookClient.client) => hookClient.client = VaultConfig

\* the config of a connection with complete vault secrets, a filled host and
\* password, and a filled environment has been resolved from the vault
C9_Witness ==
    /\ VaultComplete
    /\ ResolvedDefault
    /\ DefaultConn.host = "https://direct"
    /\ DefaultConn.password = "direct-token"
    /\ environ.R2INDEX_API_URL = "https://env"
    /\ opResolved.config.index_api_url = "vault:p:k"
    /\ opResolved.config.index_api_token = "vault:p:j"
    /\ opResolved.config.r2_endpoint_url = "vault:q:k"

EnvConfig ==
    [index_api_url |-> environ.R2INDEX_API_URL,
     index_api_token |-> environ.R2INDEX_API_TOKEN,
     r2_access_key_id |-> environ.R2_ACCESS_KEY_ID,
     r2_secret_access_key |-> environ.R2_SECRET_ACCESS_KEY,
     r2_endpoint_url |-> environ.R2_ENDPOINT_URL]

\* the connection tiers produced no config, or one without index API URL
Unusable(c) == c = NoConfig \/ c.index_api_url \in {NONE, ""}

\* C10: the environment is read exactly when the connection tiers produced
\* no config or a config whose index API URL is empty or absent; then all five
\* values are the environment's; otherwise the config of the connection tier
\* is used unchanged and the environment is not read
C10_EnvFallbackIffUnusable ==
    /\ opResolved.conn_id # NONE =>
         /\ opResolved.envRead <=> Unusable(opResolved.connConfig)
         /\ opResolved.envRead => opResolved.config = EnvConfig
         /\ ~opResolved.envRead => opResolved.config = opResolved.connConfig
    /\ ~IsNoConfig(hookClient.client) =>
         LET c == _get_config_from_connection(connections, vault, "r2index_default").config
         IN  hookClient.client = IF Unusable(c) THEN EnvConfig ELSE c

\* the connection tier produced a config with an empty index API URL and a
\* token, and the five values of the environment were used instead
C10_Witness ==
    /\ ResolvedDefault
    /\ opResolved.connConfig # NoConfig
    /\ opResolved.connConfig.index_api_url = ""
    /\ opResolved.connConfig.index_api_token = "direct-token"
    /\ opResolved.envRead
    /\ opResolved.config.index_api_url = "https://env"
    /\ opResolved.config.index_api_token = "env-token"

----------------------------------------------------------------------------
(* Failures inside the configuration chain                                 *)

\* the connection declares a vault connection and a non-empty mapping
VaultDeclared(conn) ==
    /\ conn.kind = "conn"
    /\ conn.extra.vault_conn_id \notin {NONE, ""}
    /\ conn.extra.vault_secrets_mapping.form \in {"badjson", "nondict", "dict", "json"}

\* the mapping of the connection is a dict of references
MappingUsable(conn) ==
    VaultDeclared(conn) /\ conn.extra.vault_secrets_mapping.form \in {"dict", "json"}

\* some config key of the mapping references a path whose fetch raises
SomeFetchRaises(conn) ==
    \E i \in 1..5 :
        LET ref == conn.extra.vault_secrets_mapping.map[CONFIG_KEYS[i]]
        IN  /\ ref \notin {NoRef, <<>>}
            /\ RefPath(ref) \in DOMAIN vault.secrets
            /\ vault.secrets[RefPath(ref)].kind = "raise"

\* the connection store lookup fails, the mapping is malformed, or the vault
\* backend fails
FailureInChain(conn) ==
    \/ conn.kind = "raise"
    \/ VaultDeclared(conn) /\ ~MappingUsable(conn)
    \/ MappingUsable(conn) /\ (~vault.hookOk \/ SomeFetchRaises(conn))

\* C11: configuration resolution never propagates a failure: it returns a
\* config of the five fields, and when the connection store lookup fails, the
\* mapping is malformed or the vault backend fails, that config is the one of
\* the environment variables, absent variables giving absent fields
C11_ResolutionNeverRaises ==
    /\ opResolved.conn_id # NONE =>
         /\ ~IsRaising(opResolved.config)
         /\ DOMAIN opResolved.config = ConfigFields
         /\ FailureInChain(connections[opResolved.conn_id]) =>
              /\ opResolved.envRead
              /\ opResolved.config = EnvConfig
    /\ ~IsNoConfig(hookClient.client) =>
         /\ DOMAIN hookClient.client = ConfigFields
         /\ FailureInChain(DefaultConn) => hookClient.client = EnvConfig

\* the fetch of a mapped secret raised while the environment has no index API
\* URL: the resolution returned the environment's config, URL absent
C11_Witness ==
    /\ ResolvedDefault
    /\ MappingUsable(DefaultConn)
    /\ vault.hookOk
    /\ SomeFetchRaises(DefaultConn)
    /\ environ.R2INDEX_API_URL = NONE
    /\ environ.R2INDEX_API_TOKEN = "env-token"
    /\ opResolved.config.index_api_url = NONE
    /\ opResolved.config.index_api_token = "env-token"

\* the vault tier of the default connection was entered with a VaultHook
VaultTierEntered == MappingUsable(DefaultConn) /\ vault.hookOk

\* every field of the vault tier's config is the value the vault holds for
\* its config key, absent when the vault holds none
EachKeyOnItsOwn ==
    /\ opResolved.connConfig # NoConfig
    /\ \A i \in 1..5 :
         opResolved.connConfig[ConfigField[i]] =
            Held(DefaultConn.extra.vault_secrets_mapping.map, CONFIG_KEYS[i])

\* C12 as stated: whatever way the fetch of one config key's secret fails,
\* the vault tier still produces a config, in which each key has the value
\* the vault holds for it and the keys whose fetch failed are absent
C12_Original ==
    (ResolvedDefault /\ VaultTierEntered) => EachKeyOnItsOwn

\* C12 (amended): when the vault has no data for the path of a config key, or
\* the data lacks the key, that key alone is absent and the other keys keep
\* their vault values; when a fetch raises, the vault tier as a whole produces
\* no config
C12_MissingSecretLeavesKeyAbsent ==
    (ResolvedDefault /\ VaultTierEntered) =>
        IF SomeFetchRaises(DefaultConn)
        THEN opResolved.connConfig = NoConfig
        ELSE EachKeyOnItsOwn

\* the vault has no data for the path of the three storage keys: the URL and
\* the token have their vault values, the storage keys are absent
C12_Witness ==
    /\ ResolvedDefault
    /\ VaultTierEntered
    /\ vault.secrets[<<"q">>].kind = "none"
    /\ opResolved.connConfig # NoConfig
    /\ opResolved.connConfig.index_api_url = "vault:p:k"
    /\ opResolved.connConfig.index_api_token = "vault:p:j"
    /\ opResolved.connConfig.r2_access_key_id = NONE
    /\ opResolved.connConfig.r2_endpoint_url = NONE
    /\ DefaultConn.extra.vault_secrets_mapping.map.r2_endpoint_url = <<"q", "#", "k">>

\* C18: within one vault resolution each distinct secret path is fetched at
\* most once, also when the secret fetched is empty or missing
C18_EachPathFetchedOnce ==
    opResolved.conn_id # NONE =>
        \A i, j \in DOMAIN opResolved.fetches :
            i # j => opResolved.fetches[i] # opResolved.fetches[j]

\* three config keys reference one path for which the vault has no data: the
\* path was fetched once
C18_Witness ==
    /\ ResolvedDefault
    /\ VaultTierEntered
    /\ DefaultConn.extra.vault_secrets_mapping.map.r2index_api_url = <<"p">>
    /\ DefaultConn.extra.vault_secrets_mapping.map.r2index_api_token = <<"p", "#", "j">>
    /\ DefaultConn.extra.vault_secrets_mapping.map.r2_endpoint_url = <<"p">>
    /\ vault.secrets[<<"p">>].kind = "none"
    /\ opResolved.fetches = << <<"p">> >>

----------------------------------------------------------------------------
(* Secret references                                                       *)

HasHash(s) == \E k \in DOMAIN s : s[k] = "#"

\* C13: a reference containing "#" is split at the last "#" into (path, key):
\* the key has no "#" and path, "#", key put together give the reference; a
\* reference without "#" gives (reference, default key), the default key
\* being the name of the config key being resolved
C13_ParseSecretRef ==
    parsed.called =>
        IF HasHash(parsed.secret_ref)
        THEN /\ ~HasHash(parsed.key)
             /\ parsed.path \o <<"#">> \o parsed.key = parsed.secret_ref
        ELSE /\ parsed.path = parsed.secret_ref
             /\ parsed.key = <<parsed.config_key>>

\* a reference with two "#" was parsed: the first "#" stays in the path
C13_Witness ==
    /\ parsed.called
    /\ parsed.secret_ref = <<"#", "#", "a">>
    /\ parsed.path = <<"#">>
    /\ parsed.key = <<"a">>

----------------------------------------------------------------------------
(* The link of a task instance                                             *)

\* the identifier the persisted value carries: the top-level id, or else the
\* id under the file record; NONE when it carries none
Identifier(value) ==
    IF value.form # "dict" THEN NONE
    ELSE IF Truthy(GetId(value.id)) THEN value.id
    ELSE IF value.file_record.form # "dict" THEN NONE
    ELSE IF Truthy(GetId(value.file_record.id)) THEN value.file_record.id
    ELSE NONE

\* C16: for every persisted return value the link resolver returns
\* https://r2index.example.com/files/{id} when the value carries an
\* identifier, and the empty string, without raising, when it carries none
C16_LinkOfEveryValue ==
    link.called =>
        /\ ~link.raised
        /\ link.url = IF Identifier(xcom) # NONE
                      THEN "https://r2index.example.com/files/" \o Identifier(xcom)
                      ELSE ""

----------------------------------------------------------------------------
(* Clients of a batch                                                      *)

\* __aenter__ of the client of item i returned
Opened(i) == clientState[i].state \in {"open", "closing", "closed", "close_failed"}

\* __aexit__ of the client of item i has run to its end
Closed(i) == clientState[i].state \in {"closed", "close_failed"}

\* C14: when a batch execution has ended, with a return or with the
\* batch-level failure, every client it opened has been closed (its __aexit__
\* has run to its end); a transfer is under way on a client only while it is
\* open, and a client on which a transfer was made had been opened
C14_ClientsClosedAtEnd ==
    /\ Ended => \A i \in DOMAIN items : Opened(i) => Closed(i)
    /\ \A i \in DOMAIN items :
         /\ pc[i] = "transferring" <=> clientState[i].state = "open"
         /\ clientState[i].transfer # "no" => Opened(i) /\ clientState[i].state # "open"

\* the batch-level failure was raised after the transfer of one item failed
\* and the one of another succeeded: both clients are closed
C14_Witness ==
    /\ xpc = "raised"
    /\ Len(items) = 2
    /\ clientState[1].transfer = "failed" /\ clientState[1].state = "closed"
    /\ clientState[2].transfer = "ok" /\ clientState[2].state = "closed"

\* C17: the items of a batch that share an effective connection id reuse one
\* client: the batch opens at most one client per distinct effective
\* connection id
C17_OneClientPerConnId ==
    Ended =>
        Cardinality({i \in DOMAIN items : Opened(i)})
            <= Cardinality({task[i].conn_id : i \in DOMAIN items})

----------------------------------------------------------------------------
(* The value handed to the host                                            *)

\* entry i of the returned value is a mapping with a status of "success" or
\* "error"; an upload returns bare file records
EntryHasStatus(i) ==
    /\ kind = "download"
    /\ "status" \in DOMAIN returned[i]
    /\ returned[i].status \in {"success", "error"}

\* C15 as stated: the value handed to the host has one entry per item, each
\* with a status of "success" or "error"
C15_Original ==
    Ended =>
        /\ Len(returned) = Len(items)
        /\ \A i \in DOMAIN returned : EntryHasStatus(i)

\* C15 (amended): a value is handed to the host only when no item failed; it
\* has one entry per item, in item order: the file record for an upload, the
\* path and the file record (or none) for a download, without status or
\* message; when an item failed nothing is returned
C15_ReturnsRecordsWhenNoneFailed ==
    /\ xpc = "raised" => returned = <<>>
    /\ xpc = "returned" =>
         /\ Len(returned) = Len(items)
         /\ \A i \in DOMAIN items :
              /\ taskResult[i].status = "success"
              /\ IF kind = "upload"
                 THEN returned[i] = RecordOf(items[i])
                 ELSE /\ DOMAIN returned[i] = {"path", "file_record"}
                      /\ returned[i].path = PathOf(items[i])
                      /\ returned[i].file_record \in {RecordOf(items[i]), NONE}

\* a download of two items has returned, the first one without file record
C15_Witness ==
    /\ xpc = "returned"
    /\ kind = "download"
    /\ Len(returned) = 2
    /\ returned[1] = [path |-> "path:file1", file_record |-> NONE]
    /\ returned[2] = [path |-> "path:file2", file_record |-> "record:file2"]

----------------------------------------------------------------------------
(* Termination and suspension points                                       *)

\* C19: a batch execution whose client calls all return or raise ends, with
\* a return or with the batch-level failure; and no step ends it (no timeout,
\* no early abort) while the task of some item is not done
C19_EndsIffEveryItemDoes ==
    /\ <>Ended
    /\ [][(\E i \in DOMAIN pc : pc[i] # "done") => ~Ended']_vars

\* a batch of two items has ended, its second item done before its first
C19_Witness ==
    /\ Ended
    /\ Len(items) = 2
    /\ finished = <<2, 1>>
    /\ taskResult[1].status = "success"

\* item task j is created, or waits for a client call it has made
CanGoOn(j) == pc[j] \in {"created", "opening", "transferring", "closing"}

\* C20: config resolution is a suspension point: while one item task is
\* resolving the config of its connection, every other item task that is
\* created or waits for a client call can take its next step
C20_OthersRunDuringResolution ==
    \A i, j \in DOMAIN pc :
        (i # j /\ pc[i] = "resolving" /\ CanGoOn(j)) => ENABLED TaskStep(j)

----------------------------------------------------------------------------
(* A vault reference without mapping                                       *)

\* the default connection declares a vault connection and no mapping: the
\* key is missing, or its value is "", {} or the JSON text of {}
VaultRefWithoutMapping ==
    /\ DefaultConn.kind = "conn"
    /\ DefaultConn.extra.vault_conn_id \notin {NONE, ""}
    /\ \/ DefaultConn.extra.vault_secrets_mapping.form \in {"none", "emptystr", "emptydict"}
       \/ /\ DefaultConn.extra.vault_secrets_mapping.form = "json"
          /\ DefaultConn.extra.vault_secrets_mapping.map = EmptyMap

\* a config without any value: none, or one whose five fields are absent
Valueless(c) == c = NoConfig \/ \A f \in ConfigFields : c[f] = NONE

\* C21: with a vault connection reference and no (or an empty) secrets
\* mapping the connection tiers yield no config: no secret is fetched from the
\* vault, the direct fields of the connection are not used, and the resolved
\* config is the one of the environment variables
C21_VaultRefWithoutMappingUsesEnv ==
    VaultRefWithoutMapping =>
        /\ ResolvedDefault =>
             /\ Valueless(opResolved.connConfig)
             /\ opResolved.fetches = <<>>
             /\ opResolved.envRead
             /\ opResolved.config = EnvConfig
        /\ ~IsNoConfig(hookClient.client) => hookClient.client = EnvConfig

\* a connection with a vault reference, no mapping and all direct fields
\* filled in was resolved to the environment's values
C21_Witness ==
    /\ VaultRefWithoutMapping
    /\ ResolvedDefault
    /\ DefaultConn.extra.vault_secrets_mapping.form = "none"
    /\ DefaultConn.host = "https://direct"
    /\ DefaultConn.password = "direct-token"
    /\ DefaultConn.extra.r2_endpoint_url = "direct-endpoint"
    /\ opResolved.config.index_api_url = "https://env"
    /\ opResolved.config.index_api_token = "env-token"
    /\ opResolved.config.r2_endpoint_url = "env-endpoint"

----------------------------------------------------------------------------
(* The client of a hook instance                                           *)

\* C25: on one hook instance, once a call has built the client, no later
\* call resolves the configuration or constructs a client again: each returns
\* the client the hook has, whatever became of the connection, the vault and
\* the environment; and a call that fails leaves the hook without client
C25_ClientBuiltOnce ==
    /\ [](hookClient.last = "failed" => IsNoConfig(hookClient.client))
    /\ [](hookClient.last \in {"built", "cached"} => ~IsNoConfig(hookClient.client))
    /\ [][~IsNoConfig(hookClient.client) =>
            /\ hookClient'.client = hookClient.client
            /\ hookClient'.resolutions = hookClient.resolutions
            /\ hookClient'.last \in {hookClient.last, "cached"}]_vars

\* a hook built its client from the connection's direct fields; the
\* connection was then deleted and the environment filled in, and a later
\* call returned the client the hook had
C25_Witness ==
    /\ hookClient.last = "cached"
    /\ hookClient.resolutions = 1
    /\ hookClient.client.index_api_url = "https://direct"
    /\ DefaultConn.kind = "raise"
    /\ environ.R2INDEX_API_URL = "https://env"

----------------------------------------------------------------------------
(* The operators' chain and the hook's chain; one tier per config          *)

\* C23: the config the operators resolve for a connection id has the same
\* five values as the config from which get_conn builds the hook's client
\* for that id, whatever the connection store, the vault and the environment
C23_OperatorsResolveAsHook ==
    (ResolvedDefault /\ ~IsNoConfig(hookClient.client)) =>
        /\ DOMAIN opResolved.config = DOMAIN hookClient.client
        /\ \A f \in ConfigFields : opResolved.config[f] = hookClient.client[f]

\* an operator and the hook both resolved a connection whose host is the
\* empty string: both have the values of the environment
C23_Witness ==
    /\ ResolvedDefault
    /\ ~IsNoConfig(hookClient.client)
    /\ DefaultConn.kind = "conn"
    /\ DefaultConn.host = ""
    /\ DefaultConn.extra.vault_conn_id = NONE
    /\ opResolved.config.index_api_url = "https://env"
    /\ hookClient.client.index_api_url = "https://env"

\* the five values of the direct fields of the default connection
DirectConfig ==
    [index_api_url |-> DefaultConn.host,
     index_api_token |-> DefaultConn.password,
     r2_access_key_id |-> DefaultConn.extra.r2_access_key_id,
     r2_secret_access_key |-> DefaultConn.extra.r2_secret_access_key,
     r2_endpoint_url |-> DefaultConn.extra.r2_endpoint_url]

\* the five values of c are those of one tier: the environment, the direct
\* fields of a connection without vault reference, or the vault
FromOneTier(c) ==
    \/ c = EnvConfig
    \/ /\ DefaultConn.kind = "conn"
       /\ DefaultConn.extra.vault_conn_id \in {NONE, ""}
       /\ c = DirectConfig
    \/ /\ VaultTierEntered
       /\ c = VaultConfig

\* C24: the five values of a resolved config come from a single tier: a
\* vault or direct config with a non-empty index API URL is used as is,
\* absent fields included, and one with an empty or absent index API URL is
\* replaced as a whole by the values of the environment
C24_SingleTier ==
    /\ ResolvedDefault =>
         /\ FromOneTier(opResolved.config)
         /\ opResolved.connConfig # NoConfig =>
              IF opResolved.connConfig.index_api_url \in {NONE, ""}
              THEN opResolved.config = EnvConfig
              ELSE opResolved.config = opResolved.connConfig
    /\ ~IsNoConfig(hookClient.client) => FromOneTier(hookClient.client)

\* a connection with a host and no other direct field was resolved while the
\* environment holds all five variables: the token of the config is absent
C24_Witness ==
    /\ ResolvedDefault
    /\ DefaultConn.kind = "conn"
    /\ DefaultConn.extra.vault_conn_id = NONE
    /\ DefaultConn.host = "https://direct"
    /\ DefaultConn.password = NONE
    /\ environ.R2INDEX_API_TOKEN = "env-token"
    /\ opResolved.config.index_api_url = "https://direct"
    /\ opResolved.config.index_api_token = NONE
    /\ opResolved.config.r2_endpoint_url = NONE

----------------------------------------------------------------------------
(* The link of an operator run                                             *)

\* C22: for the value that a successful operator run with at least one item
\* persists, the operator's file link is the URL of a file: it is not empty
C22_LinkOfOperatorOutput ==
    (xpc = "returned" /\ Len(items) >= 1 /\ link.called) =>
        /\ ~link.raised
        /\ link.url # ""

====
